---- MODULE Spec2Model ----
(***************************************************************************)
(* Admission control of dramdass/flask-url-shortener: the sliding-window   *)
(* limiter of solution.py and the three reference limiters (fixed window,  *)
(* sliding window, token bucket), driven by concurrent callers.            *)
(*                                                                         *)
(* Time is counted in ticks of one clock unit; time.time() is the variable *)
(* now, which never decreases.  Token counts are kept as exact rationals:  *)
(* the field tokens holds tokens * window, so that limit / window tokens   *)
(* per tick is the integer limit.                                          *)
(***************************************************************************)
EXTENDS Integers, Sequences, FiniteSets, TLC

\* ---------------------------------------------------------------- bounds
MaxLimit  == 2      \* capacities 0..MaxLimit
MaxWindow == 2      \* windows 2..MaxWindow ticks
MaxTime   == 2      \* the clock runs 0..MaxTime
MaxCalls  == 4      \* calls issued by all threads together

Keys       == {"user1", ""}
Threads    == {"t1", "t2"}
Strategies == {"solution", "sliding", "token", "fixed"}
Times      == 0..MaxTime
NoThread   == "none"

\* the key the single-key scenarios and the two-limiter runs use
Key0 == "user1"

VARIABLES
    strategy,       \* which limiter class is constructed
    limit,          \* max_requests / limit
    window,         \* time_window / window
    built,          \* the constructor returned: a limiter object exists
    start,          \* the clock value at which the limiter was constructed
    now,            \* the clock, time.time()
    store,          \* key -> state: requests / buckets / windows
    lock,           \* self.lock: the thread holding it, or NoThread
    pc,             \* per thread: position in its current call
    op,             \* per thread: "allow", "reset" or "reset_all"
    arg,            \* per thread: the key argument
    current_time,   \* per thread: the time the call sampled
    ok,             \* per thread: the outcome of the capacity test
    raised,         \* per thread: the last call raised an exception
    ncalls,         \* calls issued so far by all threads
    admitted,       \* history: key -> call time -> calls admitted since
                    \*          the key's last reset
    rejected,       \* history: key -> calls rejected so far
    last,           \* history: the call that returned last
    store2,         \* a second limiter of the same configuration
    mode,           \* how the two limiters' histories of Key0 relate
    r1, r2,         \* the results of the last call made on both limiters
    url_store,      \* the app's url_store: short code -> long URL
    url_stats,      \* the app's url_stats: short code -> click count
    status,         \* the status code of the last HTTP response
    served,         \* history: user -> POST /shorten requests answered 200
    redirect_limiter \* redirect_limiter's state: user -> state

vars == <<strategy, limit, window, built, start, now, store, lock, pc, op, arg,
          current_time, ok, raised, ncalls, admitted, rejected, last,
          store2, mode, r1, r2, url_store, url_stats, status, served,
          redirect_limiter>>

config  == <<strategy, limit, window, built, start>>
history == <<admitted, rejected, last>>
threads == <<lock, pc, op, arg, current_time, ok, raised, ncalls>>
twin    == <<store2, mode, r1, r2>>
http    == <<url_store, url_stats, status, served, redirect_limiter>>

\* ------------------------------------------------------- per-key state
\* One record shape for the three state shapes; the fields a strategy does
\* not use stay at their defaults.  present = FALSE: the key has no entry.
NoState ==
    [present |-> FALSE, timestamps |-> <<>>, tokens |-> 0,
     last_update |-> 0, window_start |-> 0, count |-> 0]

EmptyStore == [k \in Keys |-> NoState]

\* [ts for ts in xs if ts > cutoff]
SelectGreater(xs, cutoff) ==
    LET Newer(ts) == ts > cutoff
    IN  SelectSeq(xs, Newer)

RECURSIVE PopLeftWhile(_, _)
RECURSIVE PopLeftWhileStrict(_, _)
\* A timestamp exactly one window old is kept: < instead of <=.
PopLeftWhileStrict(xs, cutoff) ==
    IF xs # <<>> /\ Head(xs) < cutoff
    THEN PopLeftWhileStrict(Tail(xs), cutoff)
    ELSE xs

\* while request_times and request_times[0] <= cutoff: popleft()
PopLeftWhile(xs, cutoff) ==
    IF xs # <<>> /\ Head(xs) <= cutoff
    THEN PopLeftWhile(Tail(xs), cutoff)
    ELSE xs

Min(a, b) == IF a < b THEN a ELSE b

\* ------------------------------------------------ solution.py (sliding)
\* Lines 32-37: self.requests[key] creates the deque of a new key (a
\* defaultdict), then expired timestamps are popped from the head.
SolutionPrune(st, key, t) ==
    [st EXCEPT ![key] =
        [@ EXCEPT !.present = TRUE,
                  !.timestamps = PopLeftWhile(@, t - window)]]

\* A capacity test that is off by one: len(request_times) <= max_requests.
SolutionHasRoomOffByOne(st, key) == Len(st[key].timestamps) <= limit

\* Line 40: len(request_times) < self.max_requests
SolutionHasRoom(st, key) == Len(st[key].timestamps) < limit

\* Line 42: request_times.append(current_time)
SolutionAppend(st, key, t) ==
    [st EXCEPT ![key].timestamps = Append(@, t)]

\* A reset that drops only the oldest timestamp: popleft() for clear().
SolutionResetPopOne(st, key) ==
    IF st[key].present /\ st[key].timestamps # <<>>
    THEN [st EXCEPT ![key].timestamps = Tail(@)]
    ELSE st

\* A reset without the membership test: self.requests[key].clear() makes
\* the defaultdict create an entry for an unknown key.
SolutionResetUnguarded(st, key) ==
    [st EXCEPT ![key] = [@ EXCEPT !.present = TRUE, !.timestamps = <<>>]]

\* Lines 57-60: a known key's deque is cleared in place; the entry stays.
SolutionReset(st, key) ==
    IF st[key].present
    THEN [st EXCEPT ![key].timestamps = <<>>]
    ELSE st

\* A global reset that clears nothing.
SolutionResetAllNoop(st) == st

\* Lines 54-56: self.requests.clear()
SolutionResetAll(st) == EmptyStore

\* --------------------------------------- reference/sliding_window.py
\* A pruning that drops the entry of a user whose list has become empty.
SlidingPruneDropsEmpty(st, user_id, t) ==
    IF SelectGreater(st[user_id].timestamps, t - window) = <<>>
    THEN [st EXCEPT ![user_id] = NoState]
    ELSE [st EXCEPT ![user_id] =
            [@ EXCEPT !.present = TRUE,
                      !.timestamps = SelectGreater(@, t - window)]]

\* A pruning that keeps a timestamp exactly one window old: >= for >.
SlidingPruneKeepsEdge(st, user_id, t) ==
    LET Kept(ts) == ts >= t - window
    IN  [st EXCEPT ![user_id] =
            [@ EXCEPT !.present = TRUE,
                      !.timestamps = SelectSeq(@, Kept)]]

\* Lines 38-45: create the list of a new user, keep the timestamps > cutoff.
SlidingPrune(st, user_id, t) ==
    [st EXCEPT ![user_id] =
        [@ EXCEPT !.present = TRUE,
                  !.timestamps = SelectGreater(@, t - window)]]

\* A capacity test on the timestamps of all users together.
SlidingHasRoomGlobal(st, user_id) ==
    Len(st["user1"].timestamps) + Len(st[""].timestamps) < limit

\* A capacity test with <= for <: one timestamp too many is recorded.
SlidingHasRoomOffByOne(st, user_id) == Len(st[user_id].timestamps) <= limit

\* Line 48: len(self.requests[user_id]) < self.limit
SlidingHasRoom(st, user_id) == Len(st[user_id].timestamps) < limit

\* Line 49: self.requests[user_id].append(now)
SlidingAppend(st, user_id, t) ==
    [st EXCEPT ![user_id].timestamps = Append(@, t)]

\* ------------------------------------------ reference/token_bucket.py
\* Lines 39-51: a new bucket starts full at now; then
\* A bucket that is created empty instead of full.
TokenRefillStartEmpty(st, user_id, t) ==
    LET bucket == IF st[user_id].present
                  THEN st[user_id]
                  ELSE [NoState EXCEPT !.present = TRUE,
                                       !.tokens = 0,
                                       !.last_update = t]
        elapsed == t - bucket.last_update
    IN  [st EXCEPT ![user_id] =
            [bucket EXCEPT !.tokens = Min(limit * window,
                                          bucket.tokens + elapsed * limit),
                           !.last_update = t]]

\* A refill that forgets to move last_update: the same elapsed time is
\* credited again by the next call.
TokenRefillKeepsStamp(st, user_id, t) ==
    LET bucket == IF st[user_id].present
                  THEN st[user_id]
                  ELSE [NoState EXCEPT !.present = TRUE,
                                       !.tokens = limit * window,
                                       !.last_update = t]
        elapsed == t - bucket.last_update
    IN  [st EXCEPT ![user_id] =
            [bucket EXCEPT !.tokens = Min(limit * window,
                                          bucket.tokens + elapsed * limit)]]

\* A refill without the cap: tokens + elapsed * rate.
TokenRefillNoCap(st, user_id, t) ==
    LET bucket == IF st[user_id].present
                  THEN st[user_id]
                  ELSE [NoState EXCEPT !.present = TRUE,
                                       !.tokens = limit * window,
                                       !.last_update = t]
        elapsed == t - bucket.last_update
    IN  [st EXCEPT ![user_id] =
            [bucket EXCEPT !.tokens = bucket.tokens + elapsed * limit,
                           !.last_update = t]]

\* A refill at limit tokens per second: the rate is not divided by the
\* window.
TokenRefillUndivided(st, user_id, t) ==
    LET bucket == IF st[user_id].present
                  THEN st[user_id]
                  ELSE [NoState EXCEPT !.present = TRUE,
                                       !.tokens = limit * window,
                                       !.last_update = t]
        elapsed == t - bucket.last_update
    IN  [st EXCEPT ![user_id] =
            [bucket EXCEPT !.tokens = Min(limit * window,
                                          bucket.tokens
                                            + elapsed * limit * window),
                           !.last_update = t]]

\* tokens = min(limit, tokens + elapsed * rate), last_update = now.
\* The field tokens is in units of 1/window token.
TokenRefill(st, user_id, t) ==
    LET bucket == IF st[user_id].present
                  THEN st[user_id]
                  ELSE [NoState EXCEPT !.present = TRUE,
                                       !.tokens = limit * window,
                                       !.last_update = t]
        elapsed == t - bucket.last_update
    IN  [st EXCEPT ![user_id] =
            [bucket EXCEPT !.tokens = Min(limit * window,
                                          bucket.tokens + elapsed * limit),
                           !.last_update = t]]

\* A capacity test that admits on any fraction of a token: tokens > 0.
TokenHasRoomFraction(st, user_id) == st[user_id].tokens > 0

\* Line 54: bucket["tokens"] >= 1
TokenHasRoom(st, user_id) == st[user_id].tokens >= window

\* Line 55: bucket["tokens"] -= 1
TokenTake(st, user_id, t) ==
    [st EXCEPT ![user_id].tokens = @ - window]

\* ------------------------------------------ reference/fixed_window.py
\* A window that begins at the call's own time, not at a multiple of the
\* window.
WindowStartUnaligned(t) == t

\* Line 39: int(now / self.window) * self.window
WindowStart(t) == (t \div window) * window

\* A roll-over that adopts the newer window_start but keeps the count.
FixedRollKeepCount(st, user_id, t) ==
    LET user_window == IF st[user_id].present
                       THEN st[user_id]
                       ELSE [NoState EXCEPT !.present = TRUE,
                                            !.window_start = WindowStart(t)]
    IN  [st EXCEPT ![user_id] =
            IF WindowStart(t) > user_window.window_start
            THEN [user_window EXCEPT !.window_start = WindowStart(t)]
            ELSE user_window]

\* A roll-over test with >= for >: the count goes back to 0 on every call.
FixedRollAlways(st, user_id, t) ==
    [st EXCEPT ![user_id] =
        [NoState EXCEPT !.present = TRUE, !.window_start = WindowStart(t)]]

\* Lines 41-52: create the window of a new user with count 0; a newer
\* window_start is adopted and the count goes back to 0.
FixedRoll(st, user_id, t) ==
    LET user_window == IF st[user_id].present
                       THEN st[user_id]
                       ELSE [NoState EXCEPT !.present = TRUE,
                                            !.window_start = WindowStart(t)]
    IN  [st EXCEPT ![user_id] =
            IF WindowStart(t) > user_window.window_start
            THEN [user_window EXCEPT !.window_start = WindowStart(t),
                                     !.count = 0]
            ELSE user_window]

\* A capacity test with <= for <: one call too many per window.
FixedHasRoomOffByOne(st, user_id) == st[user_id].count <= limit

\* Line 55: user_window["count"] < self.limit
FixedHasRoom(st, user_id) == st[user_id].count < limit

\* An admitted call that is not counted at all.
FixedCountForgotten(st, user_id, t) == st

\* An admitted call that is counted twice.
FixedCountTwice(st, user_id, t) ==
    [st EXCEPT ![user_id].count = @ + 2]

\* Line 56: user_window["count"] += 1
FixedCount(st, user_id, t) ==
    [st EXCEPT ![user_id].count = @ + 1]

\* reset(user_id) of the three reference limiters: del under a membership
\* test.  del of a missing key raises KeyError.
Del(st, user_id) ==
    [st |-> [st EXCEPT ![user_id] = NoState], err |-> ~st[user_id].present]

\* A reset that clears the whole mapping.
ReferenceResetClearsAll(st, user_id) == [st |-> EmptyStore, err |-> FALSE]

ReferenceReset(st, user_id) ==
    IF st[user_id].present
    THEN Del(st, user_id)
    ELSE [st |-> st, err |-> FALSE]

\* ------------------------------------------------ strategy dispatch
\* The three parts of an admission call, as the constructed class runs them.
Refresh(st, key, t) ==
    CASE strategy = "solution" -> SolutionPrune(st, key, t)
      [] strategy = "sliding"  -> SlidingPrune(st, key, t)
      [] strategy = "token"    -> TokenRefill(st, key, t)
      [] strategy = "fixed"    -> FixedRoll(st, key, t)

HasRoom(st, key) ==
    CASE strategy = "solution" -> SolutionHasRoom(st, key)
      [] strategy = "sliding"  -> SlidingHasRoom(st, key)
      [] strategy = "token"    -> TokenHasRoom(st, key)
      [] strategy = "fixed"    -> FixedHasRoom(st, key)

Consume(st, key, t) ==
    CASE strategy = "solution" -> SolutionAppend(st, key, t)
      [] strategy = "sliding"  -> SlidingAppend(st, key, t)
      [] strategy = "token"    -> TokenTake(st, key, t)
      [] strategy = "fixed"    -> FixedCount(st, key, t)

\* reset(key): the new store and whether the call raised.
ResetKey(st, key) ==
    IF strategy = "solution"
    THEN [st |-> SolutionReset(st, key), err |-> FALSE]
    ELSE ReferenceReset(st, key)

\* The event is recorded whatever the capacity test said.
RecordAlways(st, key, t, room) == Consume(st, key, t)

\* The two branches after the capacity test: only an admitted call is
\* recorded in the key's state (solution.py lines 40-45).
Record(st, key, t, room) == IF room THEN Consume(st, key, t) ELSE st

\* One whole admission call run without interruption at time t.
IsAllowed(st, key, t) ==
    LET pruned == Refresh(st, key, t)
        room   == HasRoom(pruned, key)
    IN  [st |-> Record(pruned, key, t, room), ok |-> room]

\* ---------------------------------------------------------- histories
NoHistory == [k \in Keys |-> [t \in Times |-> 0]]

NoCall == [op |-> "none", key |-> "user1", ok |-> FALSE]

RECURSIVE SumOver(_, _)
\* the sum of f[t] over the times in S
SumOver(f, S) ==
    IF S = {} THEN 0
    ELSE LET t == CHOOSE x \in S : TRUE
         IN  f[t] + SumOver(f, S \ {t})

\* admitted calls of key k of history h with call time in lo..hi
CountIn(h, k, lo, hi) == SumOver(h[k], {t \in Times : lo <= t /\ t <= hi})

Total(h, k) == CountIn(h, k, 0, MaxTime)

\* ------------------------------------------------------ the app's data
\* The long URLs the clients submit, and shorten_url: the first 8 hex digits
\* of the URL's MD5 digest.
Urls == {"https://example.com", "https://example.com/11"}

shorten_url(long_url) ==
    CASE long_url = "https://example.com"    -> "c984d06a"
      [] long_url = "https://example.com/11" -> "1662e940"

ShortCodes == {shorten_url(long_url) : long_url \in Urls}

\* url_store = {} and url_stats = {}; "none" and present = FALSE: no entry.
NoUrls == [c \in ShortCodes |-> "none"]

NoStats == [c \in ShortCodes |-> [present |-> FALSE, clicks |-> 0]]

\* ------------------------------------------------------------- threads
\* No mutual exclusion: the lock is never waited for.
CanAcquireAlways == TRUE

\* with self.lock: the lock is free
CanAcquire == lock = NoThread

Init ==
    /\ strategy \in Strategies
    /\ limit \in 0..MaxLimit
    /\ window \in 2..MaxWindow
    /\ built = TRUE
    /\ start = 0
    /\ now = 0
    /\ store = EmptyStore
    /\ lock = NoThread
    /\ pc = [th \in Threads |-> "idle"]
    /\ op = [th \in Threads |-> "allow"]
    /\ arg = [th \in Threads |-> "user1"]
    /\ current_time = [th \in Threads |-> 0]
    /\ ok = [th \in Threads |-> FALSE]
    /\ raised = [th \in Threads |-> FALSE]
    /\ ncalls = 0
    /\ admitted = NoHistory
    /\ rejected = [k \in Keys |-> 0]
    /\ last = NoCall
    /\ store2 = EmptyStore
    /\ mode = "same"
    /\ r1 = FALSE
    /\ r2 = FALSE
    /\ url_store = NoUrls
    /\ url_stats = NoStats
    /\ status = 0
    /\ served = [k \in Keys |-> 0]
    /\ redirect_limiter = EmptyStore

\* The clock advances.
Tick ==
    /\ now < MaxTime
    /\ now' = now + 1
    /\ UNCHANGED <<config, store, threads, history, twin, http>>

\* A thread calls is_allowed(key) / allow_request(user_id).  solution.py
\* samples time.time() here, before it asks for the lock (line 28).
CallAllow(th, key) ==
    /\ built
    /\ pc[th] = "idle"
    /\ ncalls < MaxCalls
    /\ pc' = [pc EXCEPT ![th] = "called"]
    /\ op' = [op EXCEPT ![th] = "allow"]
    /\ arg' = [arg EXCEPT ![th] = key]
    /\ current_time' = [current_time EXCEPT ![th] =
                            IF strategy = "solution" THEN now ELSE @]
    /\ raised' = [raised EXCEPT ![th] = FALSE]
    /\ ncalls' = ncalls + 1
    /\ UNCHANGED <<config, now, store, lock, ok, history, twin, http>>

\* A thread calls reset(key).
CallReset(th, key) ==
    /\ built
    /\ pc[th] = "idle"
    /\ ncalls < MaxCalls
    /\ pc' = [pc EXCEPT ![th] = "called"]
    /\ op' = [op EXCEPT ![th] = "reset"]
    /\ arg' = [arg EXCEPT ![th] = key]
    /\ raised' = [raised EXCEPT ![th] = FALSE]
    /\ ncalls' = ncalls + 1
    /\ UNCHANGED <<config, now, store, lock, current_time, ok, history, twin,
                   http>>

\* A thread calls reset() with no key.  Only solution.py gives the key a
\* default; the reference reset(self, user_id) raises TypeError at the call.
CallResetAll(th) ==
    /\ built
    /\ pc[th] = "idle"
    /\ ncalls < MaxCalls
    /\ ncalls' = ncalls + 1
    /\ IF strategy = "solution"
       THEN /\ pc' = [pc EXCEPT ![th] = "called"]
            /\ op' = [op EXCEPT ![th] = "reset_all"]
            /\ raised' = [raised EXCEPT ![th] = FALSE]
       ELSE /\ UNCHANGED <<pc, op>>
            /\ raised' = [raised EXCEPT ![th] = TRUE]
    /\ UNCHANGED <<config, now, store, lock, arg, current_time, ok, history,
                   twin, http>>

\* fixed_window.py line 39 divides by the window: with a window of 0 the
\* call raises ZeroDivisionError.
AllowRaises == strategy = "fixed" /\ window = 0

\* with self.lock: the thread gets the lock.  The reference limiters sample
\* time.time() as the first statement under the lock.  Then the key's state
\* is created if missing and brought up to the call's time (pruning, refill,
\* window roll-over), and the capacity test is made.
Enter(th) ==
    /\ pc[th] = "called"
    /\ op[th] = "allow"
    /\ CanAcquire
    /\ ~AllowRaises
    /\ lock' = th
    /\ LET t == IF strategy = "solution" THEN current_time[th] ELSE now
       IN  /\ current_time' = [current_time EXCEPT ![th] = t]
           /\ store' = Refresh(store, arg[th], t)
           /\ ok' = [ok EXCEPT ![th] = HasRoom(store', arg[th])]
    /\ pc' = [pc EXCEPT ![th] = "tested"]
    /\ UNCHANGED <<config, now, op, arg, raised, ncalls, history, twin,
                   http>>

\* A return that leaves the lock held: the release is missing.
ReturnKeepsLock(th) ==
    /\ pc[th] = "tested"
    /\ store' = Record(store, arg[th], current_time[th], ok[th])
    /\ lock' = lock
    /\ pc' = [pc EXCEPT ![th] = "idle"]
    /\ current_time' = [current_time EXCEPT ![th] = 0]
    /\ ok' = [ok EXCEPT ![th] = FALSE]
    /\ admitted' = IF ok[th]
                   THEN [admitted EXCEPT ![arg[th]][current_time[th]] = @ + 1]
                   ELSE admitted
    /\ last' = [op |-> "allow", key |-> arg[th], ok |-> ok[th]]
    /\ rejected' = IF ok[th]
                   THEN rejected
                   ELSE [rejected EXCEPT ![arg[th]] = @ + 1]
    /\ op' = [op EXCEPT ![th] = "allow"]
    /\ arg' = [arg EXCEPT ![th] = "user1"]
    /\ UNCHANGED <<config, now, raised, ncalls, twin, http>>

\* Still under the lock: an admitted call is recorded in the key's state;
\* the call returns and the lock is released.
Return(th) ==
    /\ pc[th] = "tested"
    /\ store' = Record(store, arg[th], current_time[th], ok[th])
    /\ lock' = NoThread
    /\ pc' = [pc EXCEPT ![th] = "idle"]
    /\ current_time' = [current_time EXCEPT ![th] = 0]
    /\ ok' = [ok EXCEPT ![th] = FALSE]
    /\ admitted' = IF ok[th]
                   THEN [admitted EXCEPT ![arg[th]][current_time[th]] = @ + 1]
                   ELSE admitted
    /\ last' = [op |-> "allow", key |-> arg[th], ok |-> ok[th]]
    /\ rejected' = IF ok[th]
                   THEN rejected
                   ELSE [rejected EXCEPT ![arg[th]] = @ + 1]
    /\ op' = [op EXCEPT ![th] = "allow"]
    /\ arg' = [arg EXCEPT ![th] = "user1"]
    /\ UNCHANGED <<config, now, raised, ncalls, twin, http>>

\* reset(key) gets the lock, runs, returns and releases the lock.
DoReset(th) ==
    /\ pc[th] = "called"
    /\ op[th] = "reset"
    /\ CanAcquire
    /\ store' = ResetKey(store, arg[th]).st
    /\ raised' = [raised EXCEPT ![th] = ResetKey(store, arg[th]).err]
    /\ pc' = [pc EXCEPT ![th] = "idle"]
    /\ admitted' = [admitted EXCEPT ![arg[th]] = [t \in Times |-> 0]]
    /\ last' = [op |-> "reset", key |-> arg[th], ok |-> FALSE]
    /\ op' = [op EXCEPT ![th] = "allow"]
    /\ arg' = [arg EXCEPT ![th] = "user1"]
    /\ UNCHANGED <<config, now, lock, current_time, ok, ncalls, rejected,
                   twin, http>>

\* reset() gets the lock, clears every key and releases the lock
\* (solution.py).
DoResetAll(th) ==
    /\ pc[th] = "called"
    /\ op[th] = "reset_all"
    /\ CanAcquire
    /\ store' = SolutionResetAll(store)
    /\ pc' = [pc EXCEPT ![th] = "idle"]
    /\ admitted' = NoHistory
    /\ last' = [op |-> "reset_all", key |-> "user1", ok |-> FALSE]
    /\ op' = [op EXCEPT ![th] = "allow"]
    /\ UNCHANGED <<config, now, lock, arg, current_time, ok, raised, ncalls,
                   rejected, twin, http>>

\* The steps of a call once it is issued.
Proceed(th) ==
    \/ Enter(th)
    \/ Return(th)
    \/ DoReset(th)
    \/ DoResetAll(th)

Next ==
    \/ Tick
    \/ \E th \in Threads, key \in Keys : CallAllow(th, key)
    \/ \E th \in Threads, key \in Keys : CallReset(th, key)
    \/ \E th \in Threads : CallResetAll(th)
    \/ \E th \in Threads : Proceed(th)

Spec == Init /\ [][Next]_vars

\* Fair scheduling: a thread that holds the lock runs on, and a thread that
\* waits for the lock gets it if the lock is free again and again.
Fairness == \A th \in Threads : SF_vars(Proceed(th))

SpecFair == Spec /\ Fairness

\* ------------------------------------------------------- construction
\* __init__ stores its arguments unchecked.  Only token_bucket.py computes
\* with them (line 23, limit / window): a window of 0 raises
\* ZeroDivisionError there.
InitRaises == strategy = "token" /\ window = 0

\* Before the constructor runs, for any capacity and window a caller may
\* pass, a negative capacity and a window of 0 included.
InitConstruct ==
    /\ strategy \in Strategies
    /\ limit \in -1..MaxLimit
    /\ window \in {0} \cup (2..MaxWindow)
    /\ built = FALSE
    /\ start = 0
    /\ now = 0
    /\ store = EmptyStore
    /\ lock = NoThread
    /\ pc = [th \in Threads |-> "idle"]
    /\ op = [th \in Threads |-> "allow"]
    /\ arg = [th \in Threads |-> "user1"]
    /\ current_time = [th \in Threads |-> 0]
    /\ ok = [th \in Threads |-> FALSE]
    /\ raised = [th \in Threads |-> FALSE]
    /\ ncalls = 0
    /\ admitted = NoHistory
    /\ rejected = [k \in Keys |-> 0]
    /\ last = NoCall
    /\ store2 = EmptyStore
    /\ mode = "same"
    /\ r1 = FALSE
    /\ r2 = FALSE
    /\ url_store = NoUrls
    /\ url_stats = NoStats
    /\ status = 0
    /\ served = [k \in Keys |-> 0]
    /\ redirect_limiter = EmptyStore

\* Thread th runs the constructor.
Construct(th) ==
    /\ ~built
    /\ \A u \in Threads : ~raised[u]
    /\ IF InitRaises
       THEN /\ raised' = [raised EXCEPT ![th] = TRUE]
            /\ UNCHANGED built
       ELSE /\ built' = TRUE
            /\ UNCHANGED raised
    /\ UNCHANGED <<strategy, limit, window, start, now, store, lock, pc, op,
                   arg, current_time, ok, ncalls, history, twin, http>>

\* allow_request of fixed_window.py with a window of 0: the division of
\* line 39 raises under the lock; the with statement releases the lock and
\* the call ends without a result.
EnterRaises(th) ==
    /\ pc[th] = "called"
    /\ op[th] = "allow"
    /\ CanAcquire
    /\ AllowRaises
    /\ raised' = [raised EXCEPT ![th] = TRUE]
    /\ pc' = [pc EXCEPT ![th] = "idle"]
    /\ arg' = [arg EXCEPT ![th] = "user1"]
    /\ UNCHANGED <<config, now, store, lock, op, current_time, ok, ncalls,
                   history, twin, http>>

NextConstruct ==
    \/ \E th \in Threads : Construct(th)
    \/ Tick
    \/ \E th \in Threads, key \in Keys : CallAllow(th, key)
    \/ \E th \in Threads : Enter(th)
    \/ \E th \in Threads : EnterRaises(th)
    \/ \E th \in Threads : Return(th)

SpecConstruct == InitConstruct /\ [][NextConstruct]_vars

\* ---------------------------------------------- the boundary scenario
\* Test 4 of eval_example.py (scenario D): a limiter of capacity 5 and
\* window 2 s gets 5 calls for one key, the caller sleeps 1.5 s, and 5 more
\* calls follow.  One tick of the clock is half a second here.
ScenarioLimit  == 5     \* limit=5
ScenarioWindow == 4     \* window=2 (seconds), in ticks
ScenarioBatch  == 5     \* range(5)
ScenarioWait   == 3     \* time.sleep(1.5), in ticks

\* The limiter is constructed and the first batch begins at clock value
\* start: the wall clock stands anywhere within an aligned window then.
InitScenario ==
    /\ strategy \in Strategies
    /\ limit = ScenarioLimit
    /\ window = ScenarioWindow
    /\ built = TRUE
    /\ start \in 0..(ScenarioWindow - 1)
    /\ now = start
    /\ store = EmptyStore
    /\ lock = NoThread
    /\ pc = [th \in Threads |-> "idle"]
    /\ op = [th \in Threads |-> "allow"]
    /\ arg = [th \in Threads |-> "user1"]
    /\ current_time = [th \in Threads |-> 0]
    /\ ok = [th \in Threads |-> FALSE]
    /\ raised = [th \in Threads |-> FALSE]
    /\ ncalls = 0
    /\ admitted = NoHistory
    /\ rejected = [k \in Keys |-> 0]
    /\ last = NoCall
    /\ store2 = EmptyStore
    /\ mode = "same"
    /\ r1 = FALSE
    /\ r2 = FALSE
    /\ url_store = NoUrls
    /\ url_stats = NoStats
    /\ status = 0
    /\ served = [k \in Keys |-> 0]
    /\ redirect_limiter = EmptyStore

\* One call of a batch, made by the only caller: the first batch at clock
\* value start, the second after the sleep.
ScenarioCall ==
    /\ \/ ncalls < ScenarioBatch /\ now = start
       \/ /\ ScenarioBatch <= ncalls
          /\ ncalls < 2 * ScenarioBatch
          /\ now = start + ScenarioWait
    /\ store' = IsAllowed(store, Key0, now).st
    /\ last' = [op |-> "allow", key |-> Key0,
                ok |-> IsAllowed(store, Key0, now).ok]
    /\ rejected' = IF IsAllowed(store, Key0, now).ok
                   THEN rejected
                   ELSE [rejected EXCEPT ![Key0] = @ + 1]
    /\ ncalls' = ncalls + 1
    /\ UNCHANGED <<config, now, lock, pc, op, arg, current_time, ok, raised,
                   admitted, twin, http>>

\* time.sleep(1.5) between the batches, tick by tick.
ScenarioSleep ==
    /\ ncalls = ScenarioBatch
    /\ now < start + ScenarioWait
    /\ now' = now + 1
    /\ UNCHANGED <<config, store, threads, history, twin, http>>

RECURSIVE BurstCount(_, _, _, _)
\* sum(1 for _ in range(n) if limiter.allow_request(key)) at time t
BurstCount(st, key, t, n) ==
    IF n = 0 THEN 0
    ELSE (IF IsAllowed(st, key, t).ok THEN 1 ELSE 0)
         + BurstCount(IsAllowed(st, key, t).st, key, t, n - 1)

NextScenario ==
    \/ ScenarioCall
    \/ ScenarioSleep

SpecScenario == InitScenario /\ [][NextScenario]_vars

\* ------------------------------------------------------- the HTTP layer
\* The three apps of reference/ differ in the limiter class only.  Each
\* constructs shorten_limiter with limit=10, window=60 (seconds).
ShortenLimit  == 10
ShortenWindow == 60

HttpStep    == 30      \* the clock advances in steps of HttpStep seconds
MaxRequests == 12      \* requests with a 'url' sent by all clients together

\* The user ids the limiter may hold state for; a request may also carry no
\* user_id at all.
HttpUsers == {"user_a", "anonymous"}
NoUser    == "absent"

InitHttp ==
    /\ strategy \in {"sliding", "token", "fixed"}
    /\ limit = ShortenLimit
    /\ window = ShortenWindow
    /\ built = TRUE
    /\ start = 0
    /\ now = 0
    /\ store = [u \in HttpUsers |-> NoState]
    /\ lock = NoThread
    /\ pc = [th \in Threads |-> "idle"]
    /\ op = [th \in Threads |-> "allow"]
    /\ arg = [th \in Threads |-> "user1"]
    /\ current_time = [th \in Threads |-> 0]
    /\ ok = [th \in Threads |-> FALSE]
    /\ raised = [th \in Threads |-> FALSE]
    /\ ncalls = 0
    /\ admitted = NoHistory
    /\ rejected = [u \in HttpUsers |-> 0]
    /\ last = NoCall
    /\ store2 = EmptyStore
    /\ mode = "same"
    /\ r1 = FALSE
    /\ r2 = FALSE
    /\ url_store = NoUrls
    /\ url_stats = NoStats
    /\ status = 0
    /\ served = [u \in HttpUsers |-> 0]
    /\ redirect_limiter = [u \in HttpUsers |-> NoState]

\* The clock advances between two requests.
HttpTick ==
    /\ now + HttpStep <= window
    /\ now' = now + HttpStep
    /\ UNCHANGED <<config, store, threads, history, twin, http>>

\* A handler that asks the limiter before it looks at the body: a request
\* without a 'url' is answered 400 but has used up quota.
create_short_url_LimitsFirst(has_url, long_url, user_id) ==
    /\ has_url => ncalls < MaxRequests
    /\ ncalls' = IF has_url THEN ncalls + 1 ELSE ncalls
    /\ LET user   == IF user_id = NoUser THEN "anonymous" ELSE user_id
           result == IsAllowed(store, user, now)
       IN  IF ~has_url
           THEN /\ status' = 400
                /\ store' = result.st
                /\ UNCHANGED <<rejected, url_store, url_stats, served>>
           ELSE IF ~result.ok
           THEN /\ status' = 429
                /\ store' = result.st
                /\ rejected' = [rejected EXCEPT ![user] = @ + 1]
                /\ UNCHANGED <<url_store, url_stats, served>>
           ELSE /\ status' = 200
                /\ store' = result.st
                /\ url_store' = [url_store EXCEPT
                                    ![shorten_url(long_url)] = long_url]
                /\ url_stats' = [url_stats EXCEPT
                                    ![shorten_url(long_url)] =
                                        [present |-> TRUE, clicks |-> 0]]
                /\ served' = [served EXCEPT ![user] = @ + 1]
                /\ UNCHANGED rejected
    /\ UNCHANGED <<config, now, lock, pc, op, arg, current_time, ok, raised,
                   admitted, last, twin, redirect_limiter>>

\* POST /shorten.  has_url: the JSON body has a 'url'; user_id: the body's
\* user_id, or NoUser when the body has none.
create_short_url(has_url, long_url, user_id) ==
    /\ has_url => ncalls < MaxRequests
    /\ ncalls' = IF has_url THEN ncalls + 1 ELSE ncalls
    /\ LET user   == IF user_id = NoUser THEN "anonymous" ELSE user_id
           result == IsAllowed(store, user, now)
       IN  IF ~has_url
           THEN /\ status' = 400
                /\ UNCHANGED <<store, rejected, url_store, url_stats,
                               served>>
           ELSE IF ~result.ok
           THEN /\ status' = 429
                /\ store' = result.st
                /\ rejected' = [rejected EXCEPT ![user] = @ + 1]
                /\ UNCHANGED <<url_store, url_stats, served>>
           ELSE /\ status' = 200
                /\ store' = result.st
                /\ url_store' = [url_store EXCEPT
                                    ![shorten_url(long_url)] = long_url]
                /\ url_stats' = [url_stats EXCEPT
                                    ![shorten_url(long_url)] =
                                        [present |-> TRUE, clicks |-> 0]]
                /\ served' = [served EXCEPT ![user] = @ + 1]
                /\ UNCHANGED rejected
    /\ UNCHANGED <<config, now, lock, pc, op, arg, current_time, ok, raised,
                   admitted, last, twin, redirect_limiter>>

NextHttp ==
    \/ HttpTick
    \/ \E has_url \in BOOLEAN, long_url \in Urls,
          user_id \in HttpUsers \cup {NoUser} :
            create_short_url(has_url, long_url, user_id)

SpecHttp == InitHttp /\ [][NextHttp]_vars

\* ------------------------------------------- the two endpoints together
\* redirect_limiter is a second object of the same class, constructed with
\* limit=100 and the same window; it keeps its own state per user.
RedirectLimit == 100

\* The first part of redirect_limiter.allow_request: prune, refill or roll.
RedirectRefresh(st, user_id, t) ==
    CASE strategy = "sliding" -> SlidingPrune(st, user_id, t)
      [] strategy = "token"   ->
            LET bucket == IF st[user_id].present
                          THEN st[user_id]
                          ELSE [NoState EXCEPT
                                   !.present = TRUE,
                                   !.tokens = RedirectLimit * window,
                                   !.last_update = t]
                elapsed == t - bucket.last_update
            IN  [st EXCEPT ![user_id] =
                    [bucket EXCEPT
                        !.tokens = Min(RedirectLimit * window,
                                       bucket.tokens
                                         + elapsed * RedirectLimit),
                        !.last_update = t]]
      [] strategy = "fixed"   -> FixedRoll(st, user_id, t)

\* The capacity test of redirect_limiter.allow_request.
RedirectHasRoom(st, user_id) ==
    CASE strategy = "sliding" -> Len(st[user_id].timestamps) < RedirectLimit
      [] strategy = "token"   -> TokenHasRoom(st, user_id)
      [] strategy = "fixed"   -> st[user_id].count < RedirectLimit

\* redirect_limiter.allow_request(user_id) at time t: the new state and the
\* result.
RedirectAllowRequest(st, user_id, t) ==
    LET pruned == RedirectRefresh(st, user_id, t)
        room   == RedirectHasRoom(pruned, user_id)
    IN  [st |-> Record(pruned, user_id, t, room), ok |-> room]

\* A handler that counts the click before it asks the limiter.
redirect_to_url_CountsFirst(short_code, user_id) ==
    LET user   == IF user_id = NoUser THEN "anonymous" ELSE user_id
        result == RedirectAllowRequest(redirect_limiter, user, now)
        found  == url_store[short_code] # "none"
    IN  /\ redirect_limiter' = result.st
        /\ url_stats' = IF found
                        THEN [url_stats EXCEPT ![short_code].clicks = @ + 1]
                        ELSE url_stats
        /\ status' = IF ~result.ok THEN 429
                     ELSE IF ~found THEN 404 ELSE 302
        /\ last' = [op |-> "redirect", key |-> user, ok |-> result.ok]
        /\ UNCHANGED <<config, now, store, threads, admitted, rejected,
                       twin, url_store, served>>

\* GET /<short_code>.  user_id: the query's user_id, or NoUser when the
\* query has none.  302: the redirect to the long URL.  last: the call of
\* redirect_limiter that returned last.
redirect_to_url(short_code, user_id) ==
    LET user   == IF user_id = NoUser THEN "anonymous" ELSE user_id
        result == RedirectAllowRequest(redirect_limiter, user, now)
        found  == url_store[short_code] # "none"
    IN  /\ redirect_limiter' = result.st
        /\ url_stats' = IF result.ok /\ found
                        THEN [url_stats EXCEPT ![short_code].clicks = @ + 1]
                        ELSE url_stats
        /\ status' = IF ~result.ok THEN 429
                     ELSE IF ~found THEN 404 ELSE 302
        /\ last' = [op |-> "redirect", key |-> user, ok |-> result.ok]
        /\ UNCHANGED <<config, now, store, threads, admitted, rejected,
                       twin, url_store, served>>

\* Clients that shorten one URL, and one anonymous client that follows
\* short codes, the stored one and one that was never stored.
ClientUrl == "https://example.com"

\* redirect_limiter's state after n <= RedirectLimit GET requests of
\* user_id, all at time t and so all admitted: n timestamps, n tokens taken
\* from a full bucket, or a count of n in the window of t.
AfterRedirects(user_id, t, n) ==
    [u \in HttpUsers |->
        IF u # user_id THEN NoState
        ELSE CASE strategy = "sliding" ->
                    [NoState EXCEPT !.present = TRUE,
                                    !.timestamps = [i \in 1..n |-> t]]
               [] strategy = "token" ->
                    [NoState EXCEPT !.present = TRUE,
                                    !.tokens = (RedirectLimit - n) * window,
                                    !.last_update = t]
               [] strategy = "fixed" ->
                    [NoState EXCEPT !.present = TRUE,
                                    !.window_start = WindowStart(t),
                                    !.count = n]]

\* The client has already followed a short code that was never stored
\* RedirectLimit - RedirectSpare times, each answered 404: url_store and
\* url_stats are still empty and shorten_limiter has no state.
RedirectSpare == 2

InitClient ==
    /\ strategy \in {"sliding", "token", "fixed"}
    /\ limit = ShortenLimit
    /\ window = ShortenWindow
    /\ built = TRUE
    /\ start = 0
    /\ now = 0
    /\ store = [u \in HttpUsers |-> NoState]
    /\ lock = NoThread
    /\ pc = [th \in Threads |-> "idle"]
    /\ op = [th \in Threads |-> "allow"]
    /\ arg = [th \in Threads |-> "user1"]
    /\ current_time = [th \in Threads |-> 0]
    /\ ok = [th \in Threads |-> FALSE]
    /\ raised = [th \in Threads |-> FALSE]
    /\ ncalls = 0
    /\ admitted = NoHistory
    /\ rejected = [u \in HttpUsers |-> 0]
    /\ last = NoCall
    /\ store2 = EmptyStore
    /\ mode = "same"
    /\ r1 = FALSE
    /\ r2 = FALSE
    /\ url_store = NoUrls
    /\ url_stats = NoStats
    /\ status = 404
    /\ served = [u \in HttpUsers |-> 0]
    /\ redirect_limiter =
          AfterRedirects("anonymous", 0, RedirectLimit - RedirectSpare)

NextClient ==
    \/ \E has_url \in BOOLEAN, user_id \in {"user_a", NoUser} :
            create_short_url(has_url, ClientUrl, user_id)
    \/ \E short_code \in ShortCodes : redirect_to_url(short_code, NoUser)

SpecClient == InitClient /\ [][NextClient]_vars

\* Callers that only ask for admission: no reset is ever called.
NextCalls ==
    \/ Tick
    \/ \E th \in Threads, key \in Keys : CallAllow(th, key)
    \/ \E th \in Threads : Enter(th)
    \/ \E th \in Threads : Return(th)

SpecCalls == Init /\ [][NextCalls]_vars

\* ------------------------------------------------- two limiters, one clock
\* Two limiters of the same class, capacity and window receive calls one at
\* a time.  The second limiter only ever gets calls on Key0; the first gets
\* calls on every key.  mode tells how their histories of Key0 relate:
\*   "same"      both got the same timed is_allowed(Key0) / reset(Key0)
\*               calls since construction;
\*   "diverged"  the first limiter got calls on Key0 the second did not;
\*   "fork"      the first limiter's Key0 was reset and the second limiter
\*               was constructed afresh at that moment; since then both got
\*               the same timed calls on Key0.

\* The times a call can decide with: solution.py samples the clock before
\* it waits for the lock, so its time may be any earlier clock value; the
\* reference limiters sample it under the lock.
CallTimes == IF strategy = "solution" THEN 0..now ELSE {now}

\* Both limiters run is_allowed(Key0) with the same time.
BothAllow(t) ==
    /\ mode # "diverged"
    /\ store' = IsAllowed(store, Key0, t).st
    /\ store2' = IsAllowed(store2, Key0, t).st
    /\ r1' = IsAllowed(store, Key0, t).ok
    /\ r2' = IsAllowed(store2, Key0, t).ok
    /\ UNCHANGED <<config, now, threads, history, mode, http>>

\* Both limiters run reset(Key0).
BothReset ==
    /\ mode # "diverged"
    /\ store' = ResetKey(store, Key0).st
    /\ store2' = ResetKey(store2, Key0).st
    /\ UNCHANGED <<config, now, threads, history, mode, r1, r2, http>>

\* The first limiter alone runs is_allowed(key).
FirstAllow(key, t) ==
    /\ store' = IsAllowed(store, key, t).st
    /\ mode' = IF key = Key0 THEN "diverged" ELSE mode
    /\ UNCHANGED <<config, now, threads, history, store2, r1, r2, http>>

\* The first limiter alone runs reset(key) for another key than Key0.
FirstReset(key) ==
    /\ key # Key0
    /\ store' = ResetKey(store, key).st
    /\ UNCHANGED <<config, now, threads, history, twin, http>>

\* The first limiter runs reset(Key0); the second limiter is replaced by a
\* freshly constructed one.
ResetAndFork ==
    /\ store' = ResetKey(store, Key0).st
    /\ store2' = EmptyStore
    /\ mode' = "fork"
    /\ r1' = FALSE
    /\ r2' = FALSE
    /\ UNCHANGED <<config, now, threads, history, http>>

NextTwin ==
    \/ Tick
    \/ \E t \in CallTimes : BothAllow(t)
    \/ BothReset
    \/ \E key \in Keys, t \in CallTimes : FirstAllow(key, t)
    \/ \E key \in Keys : FirstReset(key)
    \/ ResetAndFork

SpecTwin == Init /\ [][NextTwin]_vars

\* ------------------------------------- the two sliding windows, one clock
\* A solution.py limiter (store) and a reference/sliding_window.py limiter
\* (store2) of the same capacity and window receive the same calls, one at a
\* time: each call runs to its end on both before the next one is made, so
\* solution.py's time sample is the clock value of the call.
InitPair ==
    /\ Init
    /\ strategy = "solution"

\* is_allowed(key) on solution.py at time t: the new state and the result.
SolutionIsAllowed(st, key, t) ==
    LET pruned == SolutionPrune(st, key, t)
        room   == SolutionHasRoom(pruned, key)
    IN  [st |-> IF room THEN SolutionAppend(pruned, key, t) ELSE pruned,
         ok |-> room]

\* allow_request(user_id) on reference/sliding_window.py at time t.
SlidingAllowRequest(st, user_id, t) ==
    LET pruned == SlidingPrune(st, user_id, t)
        room   == SlidingHasRoom(pruned, user_id)
    IN  [st |-> IF room THEN SlidingAppend(pruned, user_id, t) ELSE pruned,
         ok |-> room]

\* Both limiters are asked for admission of key at the clock's time.
\* last: the call and solution.py's answer.
PairAllow(key) ==
    /\ store' = SolutionIsAllowed(store, key, now).st
    /\ store2' = SlidingAllowRequest(store2, key, now).st
    /\ r1' = SolutionIsAllowed(store, key, now).ok
    /\ r2' = SlidingAllowRequest(store2, key, now).ok
    /\ last' = [op |-> "allow", key |-> key, ok |-> r1']
    /\ UNCHANGED <<config, now, threads, admitted, rejected, mode, http>>

\* Both limiters run reset(key).
PairReset(key) ==
    /\ store' = SolutionReset(store, key)
    /\ store2' = ReferenceReset(store2, key).st
    /\ last' = [op |-> "reset", key |-> key, ok |-> FALSE]
    /\ UNCHANGED <<config, now, threads, admitted, rejected, mode, r1, r2,
                   http>>

NextPair ==
    \/ Tick
    \/ \E key \in Keys : PairAllow(key)
    \/ \E key \in Keys : PairReset(key)

SpecPair == InitPair /\ [][NextPair]_vars

\* ============================================================== claims
\* admitted calls of key k with call time in (t - window, t]
Trailing(k, t) == CountIn(admitted, k, t - window + 1, t)

\* admitted calls of key k with call time in the aligned window
\* [j * window, (j + 1) * window)
Aligned(k, j) == CountIn(admitted, k, j * window, j * window + window - 1)

\* a step in which thread th's reset(key) runs
ResetStep(th) == pc[th] = "called" /\ op[th] = "reset" /\ pc'[th] = "idle"

\* C1: sliding window (solution.py and the reference): for every key and
\* every instant t, the admitted calls of the key whose call time lies in
\* (t - window, t] never number more than the capacity, whatever the
\* concurrent callers do.  The call time of a call is the clock value it
\* sampled; admissions are counted from the key's last reset.
C1_SlidingTrailingBound ==
    strategy \in {"solution", "sliding"} =>
        \A k \in Keys, t \in Times : Trailing(k, t) <= limit

C3_FixedAlignedBound ==
    strategy = "fixed" =>
        \A k \in Keys, j \in 0..(MaxTime \div window) : Aligned(k, j) <= limit

\* A key used up its capacity in the first aligned window, had a call
\* rejected, and was admitted again in the next window.
C3_Witness ==
    /\ strategy = "fixed"
    /\ limit >= 1
    /\ \E k \in Keys :
          /\ Aligned(k, 0) = limit
          /\ rejected[k] >= 1
          /\ Aligned(k, 1) >= 1

C5_KeyIndependence == mode = "same" => r1 = r2

\* Both limiters rejected a call on Key0 while the first limiter holds
\* state of another key.
C5_Witness ==
    /\ mode = "same"
    /\ limit >= 1
    /\ store2[Key0].present
    /\ ~r1 /\ ~r2
    /\ \E k \in Keys \ {Key0} : store[k].present /\ ~HasRoom(store, k)

\* C6: reset(key) changes only that key's state: the stored state of every
\* other key is the same before and after the call.
C6_ResetFrame ==
    [][\A th \in Threads :
          ResetStep(th) =>
              \A k \in Keys \ {arg[th]} : store'[k] = store[k]]_vars

\* A reset of one key has just returned while another key is out of quota.
C6_Witness ==
    /\ last.op = "reset"
    /\ limit >= 1
    /\ \E k \in Keys \ {last.key} :
          store[k].present /\ ~IsAllowed(store, k, now).ok

\* C7: reset() with no key (solution.py) discards the state of every key:
\* until the next call returns no key has a recorded admission, and an
\* is_allowed for any key with capacity >= 1 is admitted.
C7_ResetAllClears ==
    last.op = "reset_all" =>
        \A k \in Keys :
            /\ store[k].timestamps = <<>>
            /\ limit >= 1 => \A t \in Times : IsAllowed(store, k, t).ok

\* reset() has just returned on a limiter that had rejected a call of Key0
\* for lack of quota.
C7_Witness ==
    /\ last.op = "reset_all"
    /\ limit >= 1
    /\ rejected[Key0] >= 1

\* C8: reset(key) is equivalent to never having seen the key: after any
\* history followed by reset(Key0), every later timed is_allowed(Key0) call
\* returns what it returns on a freshly constructed limiter.
C8_ResetAsFresh == mode = "fork" => r1 = r2

\* After the reset both the reset limiter and the fresh one admitted calls
\* on Key0 until they rejected one.
C8_Witness ==
    /\ mode = "fork"
    /\ limit >= 1
    /\ store2[Key0].present
    /\ ~r1 /\ ~r2

\* C9: reset(key) for a key that has no state raises no error, leaves the
\* whole mapping unchanged and creates no state for the key.
C9_ResetUnknownNoOp ==
    [][\A th \in Threads :
          (ResetStep(th) /\ ~store[arg[th]].present) =>
              store' = store /\ ~raised'[th]]_vars

\* reset(key) has just returned for a key solution.py holds no state of,
\* while it holds state of another key.
C9_Witness ==
    /\ strategy = "solution"
    /\ last.op = "reset"
    /\ ~store[last.key].present
    /\ \E k \in Keys : store[k].present

\* C10: with capacity 0 no is_allowed call is ever admitted, for every key
\* (the empty string included), at every time and after any calls and
\* resets, for every strategy.
C10_ZeroCapacityRejects ==
    limit = 0 =>
        /\ \A k \in Keys : Total(admitted, k) = 0
        /\ \A th \in Threads : ~ok[th]
        /\ ~last.ok

\* With capacity 0, after more than a window of time, a call on the empty
\* key has just been rejected, as was one on the other key before.
C10_Witness ==
    /\ limit = 0
    /\ now >= window
    /\ last = [op |-> "allow", key |-> "", ok |-> FALSE]
    /\ rejected[Key0] >= 1

\* C11: a limiter constructed with a negative capacity or a non-positive
\* window fails at construction: for such a configuration no limiter object
\* exists and no admission call is ever issued or evaluated.
C11_MalformedConfigFailsFast ==
    (limit < 0 \/ window <= 0) => (~built /\ ncalls = 0 /\ last.op = "none")

\* a step in which thread th's admission call makes its capacity test
EnterStep(th) == pc[th] = "called" /\ op[th] = "allow" /\ pc'[th] = "tested"

\* a step in which thread th's admission call returns
ReturnStep(th) == pc[th] = "tested" /\ pc'[th] = "idle"

\* C12: a rejected call never consumes quota.  Bringing the key's state up
\* to the call's time appends no timestamp, subtracts no token, increments
\* no count and touches no other key; and when the capacity test has failed,
\* the return leaves every key's state as the refresh left it.
C12_RejectedConsumesNothing ==
    [][\A th \in Threads :
          /\ EnterStep(th) =>
                /\ \A k \in Keys \ {arg[th]} : store'[k] = store[k]
                /\ Len(store'[arg[th]].timestamps)
                       <= Len(store[arg[th]].timestamps)
                /\ store'[arg[th]].tokens >= store[arg[th]].tokens
                /\ store'[arg[th]].count <= store[arg[th]].count
          /\ (ReturnStep(th) /\ ~ok[th]) => store' = store]_vars

\* A token-bucket call was rejected after a refill that stays recorded.
C12_Witness ==
    /\ strategy = "token"
    /\ last = [op |-> "allow", key |-> Key0, ok |-> FALSE]
    /\ lock = NoThread
    /\ store[Key0].tokens > 0
    /\ store[Key0].last_update = now
    /\ now > 0

\* calls of key k that have returned
Returned(k) == Total(admitted, k) + rejected[k]

\* C13: fresh-key burst, for each strategy and every capacity C >= 0: while
\* the clock stands at the instant of construction and no reset is called,
\* of the calls made for a key the first C are admitted and every later one
\* is rejected: after n returned calls min(C, n) were admitted, and the call
\* that returned last was admitted exactly if it was among the first C.
C13_FreshKeyBurst ==
    now = 0 =>
        /\ \A k \in Keys : Total(admitted, k) = Min(limit, Returned(k))
        /\ last.op = "allow" => (last.ok <=> Returned(last.key) <= limit)

\* A token bucket got one call more than its capacity at one instant.
C13_Witness ==
    /\ strategy = "token"
    /\ now = 0
    /\ limit >= 2
    /\ Total(admitted, Key0) = limit
    /\ rejected[Key0] = 1
    /\ last = [op |-> "allow", key |-> Key0, ok |-> FALSE]

\* the call times of the admitted calls of key k since its last reset
AdmitTimes(k) == {t \in Times : admitted[k][t] > 0}

\* the call time of the most recent of them
LastAdmit(k) == CHOOSE t \in AdmitTimes(k) : \A u \in AdmitTimes(k) : u <= t

\* C14: recovery after the window, for each strategy with capacity >= 1: a
\* call whose time is at least one window later than the time of the key's
\* most recent admitted call passes the capacity test, whatever calls were
\* rejected in between.
C14_RecoveryAfterWindow ==
    \A th \in Threads :
        (/\ pc[th] = "tested"
         /\ limit >= 1
         /\ AdmitTimes(arg[th]) # {}
         /\ current_time[th] >= LastAdmit(arg[th]) + window) => ok[th]

\* A key used up its capacity at time 0, had a call rejected, and one
\* window later a call of it was admitted again.
C14_Witness ==
    /\ limit >= 1
    /\ admitted[Key0][0] = limit
    /\ rejected[Key0] >= 1
    /\ admitted[Key0][window] >= 1
    /\ last = [op |-> "allow", key |-> Key0, ok |-> TRUE]

\* C15: the fixed-window boundary defect is present.  The fixed window
\* decides by the count of the call's own aligned window only: a call at
\* time t is admitted exactly if fewer than capacity calls of the key were
\* admitted (since its last reset) with a time in the aligned window of t,
\* however many were admitted just before that window began.  The execution
\* the claim names is C15_Witness.
C15_FixedDecidesByAlignedWindow ==
    strategy = "fixed" =>
        \A th \in Threads :
            pc[th] = "tested" =>
                (ok[th] <=>
                    Aligned(arg[th], current_time[th] \div window) < limit)

\* 2 * capacity calls of one key were admitted within a span shorter than
\* the window: capacity at the last tick of the first aligned window and
\* capacity at the first tick of the next.
C15_Witness ==
    /\ strategy = "fixed"
    /\ limit >= 2
    /\ admitted[Key0][window - 1] = limit
    /\ admitted[Key0][window] = limit
    /\ rejected[Key0] = 0

C17_SlidingDecisionExact ==
    strategy \in {"solution", "sliding"} =>
        \A th \in Threads :
            pc[th] = "tested" =>
                (ok[th] <=> Trailing(arg[th], current_time[th]) < limit)

ResetAllStep(th) ==
    pc[th] = "called" /\ op[th] = "reset_all" /\ pc'[th] = "idle"

\* Thread th's call takes its place in the order of the key's calls in this
\* step, and u is a clock value of that place: not later than the clock,
\* not earlier than the call began, and not earlier than the time of any
\* call admitted before it.  The call's result and the state it leaves are
\* those of the call run alone with time u.
TakesPlaceAt(th, u) ==
    /\ u <= now
    /\ strategy = "solution" => current_time[th] <= u
    /\ \A t \in AdmitTimes(arg[th]) : t <= u
    /\ ok'[th] = IsAllowed(store, arg[th], u).ok
    /\ Record(store', arg[th], current_time'[th], ok'[th])
          = IsAllowed(store, arg[th], u).st

\* C20: per-key linearizability: every admission call takes effect in one
\* step, with the result and the state of a sequential call that decides
\* with a clock value of its place in the order; and no reset(key) or
\* reset() runs while a call is between its capacity test and its return.
C20_Linearizable ==
    [][\A th \in Threads :
          /\ EnterStep(th) => \E u \in Times : TakesPlaceAt(th, u)
          /\ (ResetStep(th) \/ ResetAllStep(th)) =>
                \A other \in Threads : pc[other] # "tested"]_vars

\* the sequence xs is non-decreasing from head to tail
NonDecreasing(xs) ==
    \A i \in 1..Len(xs) : \A j \in i..Len(xs) : xs[i] <= xs[j]

\* C21: sliding window (solution.py and the reference): in every reachable
\* state, concurrent calls for one key included, each key's recorded
\* timestamp sequence is non-decreasing from the head to the tail.
C21_TimestampsNonDecreasing ==
    strategy \in {"solution", "sliding"} =>
        \A k \in Keys : NonDecreasing(store[k].timestamps)

\* the timestamps on record in the sequence xs
Recorded(xs) == {xs[i] : i \in 1..Len(xs)}

\* C22: sliding window (solution.py and the reference): when an admission
\* call that used time t for key k returns, admitted or rejected, every
\* timestamp on record for k is strictly greater than t - window.
C22_PrunedOnReturn ==
    [][\A th \in Threads :
          (ReturnStep(th) /\ strategy \in {"solution", "sliding"}) =>
              \A ts \in Recorded(store'[arg[th]].timestamps) :
                  ts > current_time[th] - window]_vars

\* C23: sliding window (solution.py and the reference): in every reachable
\* state the number of timestamps on record for a key is at most the
\* capacity.
C23_RecordSizeBound ==
    strategy \in {"solution", "sliding"} =>
        \A k \in Keys : Len(store[k].timestamps) <= limit

\* Between calls a key of the reference sliding window holds as many
\* timestamps as the capacity, and a further call was rejected.
C23_Witness ==
    /\ strategy = "sliding"
    /\ limit >= 2
    /\ lock = NoThread
    /\ Len(store[Key0].timestamps) = limit
    /\ last = [op |-> "allow", key |-> Key0, ok |-> FALSE]

\* C24: token bucket: in every reachable state each key's token count lies
\* in [0, capacity] (the field tokens counts 1/window tokens, so it lies in
\* 0..limit * window), under concurrent calls and however long the key was
\* idle.
C24_TokenRange ==
    strategy = "token" =>
        \A k \in Keys :
            /\ 0 <= store[k].tokens
            /\ store[k].tokens <= limit * window

\* A bucket that had given out a token stayed idle for a whole window; the
\* refill of the next call would overshoot and is cut at the capacity.
C24_Witness ==
    /\ strategy = "token"
    /\ limit >= 2
    /\ admitted[Key0][0] = 1
    /\ Total(admitted, Key0) = 1
    /\ \E th \in Threads : pc[th] = "tested" /\ arg[th] = Key0
    /\ store[Key0].last_update >= window
    /\ store[Key0].tokens = limit * window

\* the step is the capacity test of a call for key k whose window_start is
\* strictly newer than the one stored for k
RollsOver(k) ==
    \E th \in Threads :
        /\ EnterStep(th)
        /\ arg[th] = k
        /\ WindowStart(now) > store[k].window_start

\* C25: fixed window: in every reachable state each key's stored
\* window_start is a multiple of the window and its count lies in
\* 0..capacity; and for a key that has state before and after a step, the
\* count goes back to 0 (and the newer window_start is adopted) exactly in
\* the steps in which a call for the key computes a strictly newer
\* window_start; in every other step the count does not go down and the
\* window_start stays.
C25_FixedStateShape ==
    /\ [](strategy = "fixed" =>
            \A k \in Keys :
                /\ store[k].window_start % window = 0
                /\ 0 <= store[k].count
                /\ store[k].count <= limit)
    /\ [][strategy = "fixed" =>
            \A k \in Keys :
                (store[k].present /\ store'[k].present) =>
                    IF RollsOver(k)
                    THEN /\ store'[k].count = 0
                         /\ store'[k].window_start = WindowStart(now)
                    ELSE /\ store'[k].count >= store[k].count
                         /\ store'[k].window_start
                               = store[k].window_start]_vars

\* A key used up its first window and its count started again in the next.
C25_Witness ==
    /\ strategy = "fixed"
    /\ limit >= 1
    /\ admitted[Key0][0] = limit
    /\ store[Key0].window_start = window
    /\ store[Key0].count = 1

\* C26: when reset(key) returns, the key has no entry in the mapping from
\* keys to state; when reset() returns, the mapping has no entries at all.
C26_ResetRemovesEntry ==
    [][\A th \in Threads :
          /\ ResetStep(th) => ~store'[arg[th]].present
          /\ ResetAllStep(th) => \A k \in Keys : ~store'[k].present]_vars

\* C27: no expiry: a key has state when its admission call has made the
\* capacity test and when the call returns, admitted or rejected, the first
\* call included; and a key's state goes away only in a step in which
\* reset(key) for that key or reset() runs, never by the clock advancing or
\* by an admission call.
C27_NoExpiry ==
    [][/\ \A th \in Threads :
             (EnterStep(th) \/ ReturnStep(th)) => store'[arg[th]].present
       /\ \A k \in Keys :
             (store[k].present /\ ~store'[k].present) =>
                 \E th \in Threads :
                     \/ ResetStep(th) /\ arg[th] = k
                     \/ ResetAllStep(th)]_vars

\* The only call ever made for a key was rejected; a window later the key
\* still has its state.
C27_Witness ==
    /\ ncalls = 1
    /\ rejected[Key0] = 1
    /\ last = [op |-> "allow", key |-> Key0, ok |-> FALSE]
    /\ now >= window
    /\ store[Key0].present

\* C28: no deadlock, termination: under fair scheduling every call a thread
\* has issued (is_allowed, reset(key) or reset()) returns, and the lock,
\* once taken, is released.
C28_CallsComplete ==
    /\ \A th \in Threads : (pc[th] # "idle") ~> (pc[th] = "idle")
    /\ (lock # NoThread) ~> (lock = NoThread)

\* A call waits for the lock while another thread's call holds it, and a
\* reset() is among the two.
C28_Witness ==
    /\ strategy = "solution"
    /\ \E th \in Threads : pc[th] = "tested" /\ lock = th
    /\ \E th \in Threads : pc[th] = "called" /\ op[th] = "reset_all"

\* a step in which thread th calls reset() on a reference limiter: the call
\* is issued and is over in the same step, and no thread changes its
\* position
ReferenceResetAllStep(th) ==
    /\ strategy # "solution"
    /\ pc[th] = "idle"
    /\ pc' = pc
    /\ ncalls' = ncalls + 1
    /\ \A other \in Threads \ {th} : raised'[other] = raised[other]

\* C29: reset with the key omitted, called on the fixed-window, the
\* sliding-window or the token-bucket reference limiter, raises no error and
\* leaves no key with state.
C29_ReferenceResetAll ==
    [][\A th \in Threads :
          ReferenceResetAllStep(th) =>
              /\ ~raised'[th]
              /\ \A k \in Keys : ~store'[k].present]_vars


\* a step in which user u sends POST /shorten with a url
ShortenStep(u) ==
    served'[u] + rejected'[u] = served[u] + rejected[u] + 1

\* a step in which GET /<short_code> is answered: no POST was counted and
\* the answer is not the 400 of a POST without a url
RedirectStep == ncalls' = ncalls /\ status' # 400

\* C30: a POST /shorten or GET /<short_code> request that its limiter
\* rejects is answered 429 and leaves url_store and url_stats as they were.
C30_RejectedLeavesStore ==
    [][/\ \A u \in HttpUsers :
            (ShortenStep(u) /\ ~IsAllowed(store, u, now).ok)
            => /\ status' = 429
               /\ url_store' = url_store
               /\ url_stats' = url_stats
       /\ (RedirectStep
             /\ ~RedirectAllowRequest(redirect_limiter, "anonymous", now).ok)
          => /\ status' = 429
             /\ url_store' = url_store
             /\ url_stats' = url_stats]_vars

\* A POST and a GET have both been rejected while a mapping was stored and
\* its clicks were counted.
C30_Witness ==
    /\ status = 429
    /\ rejected["anonymous"] >= 1
    /\ last = [op |-> "redirect", key |-> "anonymous", ok |-> FALSE]
    /\ url_store[shorten_url(ClientUrl)] = ClientUrl
    /\ url_stats[shorten_url(ClientUrl)].clicks >= 1


\* C31: fixed window, clock non-decreasing: for every key and every time
\* span shorter than the window, that is the call times in (t - window, t]
\* for some instant t, the admitted calls of the key number at most twice
\* the capacity.  Admissions are counted from the key's last reset.
C31_FixedSpanTwice ==
    strategy = "fixed" =>
        \A k \in Keys, t \in Times : Trailing(k, t) <= 2 * limit

\* A key got twice its capacity within a span shorter than the window, half
\* of it at the end of one aligned window and half at the start of the next.
C31_Witness ==
    /\ strategy = "fixed"
    /\ limit >= 1
    /\ \E k \in Keys, t \in Times :
          /\ WindowStart(t) = t
          /\ t >= 1
          /\ admitted[k][t - 1] = limit
          /\ admitted[k][t] = limit
          /\ Trailing(k, t) = 2 * limit


\* C32: token bucket, clock non-decreasing: for every key and every closed
\* interval [a, b] of call times, of length d = b - a >= 0, the admitted
\* calls of the key number at most capacity + d * capacity / window (both
\* sides multiplied by the window here).  Admissions are counted from the
\* key's last reset.
C32_TokenRefillBound ==
    strategy = "token" =>
        \A k \in Keys, a \in Times, b \in Times :
            a <= b =>
                CountIn(admitted, k, a, b) * window
                    <= limit * window + (b - a) * limit

\* A key emptied its full bucket and then got every token refilled since:
\* the bound is reached on an interval of positive length.
C32_Witness ==
    /\ strategy = "token"
    /\ limit >= 1
    /\ \E k \in Keys, a \in Times, b \in Times :
          /\ a < b
          /\ admitted[k][a] = limit
          /\ CountIn(admitted, k, a, b) * window
                = limit * window + (b - a) * limit


\* C33: solution.py and reference/sliding_window.py, given the same
\* sequence of admission calls and per-key resets, one call at a time on a
\* non-decreasing clock, return the same decision for every call.
C33_SlidingImplementationsAgree == r1 = r2

\* Both limiters rejected a call of a key at full capacity while the other
\* key had been reset: solution.py keeps its emptied deque, the reference
\* has deleted the entry; and the clock is past the first window, so
\* timestamps have been evicted on the way.
C33_Witness ==
    /\ limit >= 1
    /\ now >= window
    /\ \E k \in Keys :
          /\ last = [op |-> "allow", key |-> k, ok |-> FALSE]
          /\ ~r1
          /\ ~r2
          /\ Len(store[k].timestamps) = limit
          /\ Head(store[k].timestamps) > 0
          /\ \E other \in Keys \ {k} :
                /\ store[other].present
                /\ store[other].timestamps = <<>>
                /\ ~store2[other].present


\* a step in which a POST /shorten request is answered 400; the clock does
\* not move while a request is handled
MalformedStep == status' = 400 /\ now' = now

\* C34: a POST /shorten request answered 400 because its body has no 'url'
\* leaves the limiter state of every user as it was, and with it the answer
\* the limiter would give to a valid request of any user.
C34_MalformedCostsNothing ==
    [][MalformedStep =>
          /\ store' = store
          /\ \A u \in HttpUsers :
                IsAllowed(store', u, now').ok = IsAllowed(store, u, now).ok]_vars

\* A request without a 'url' has just been answered 400 while one user had
\* used up the capacity without a rejection and the other had been served.
C34_Witness ==
    /\ status = 400
    /\ served["anonymous"] = limit
    /\ rejected["anonymous"] = 0
    /\ served["user_a"] >= 1

====
